---- MODULE Spec2Model ----
(***************************************************************************)
(* Model of harness_wrapper.c: a fuzzing harness adapter that loads the    *)
(* input file (read_file), forks a child that runs the analysis program    *)
(* with the payload both as argv[2] and on its standard input (a pipe),    *)
(* waits for the child and translates its wait status into the parent's    *)
(* own termination (exit 0 / exit 1 / self-delivered signal).              *)
(*                                                                         *)
(* The parent (main) and the child (the pid == 0 branch, then the          *)
(* analysis program) are two processes whose steps interleave.  The        *)
(* kernel objects they share are the pipe buffer and the open-file         *)
(* descriptions of its two ends.                                           *)
(***************************************************************************)
EXTENDS Integers, Sequences, FiniteSets, TLC

\* ---------------------------------------------------------------- bounds
\* MAX_INPUT_SIZE is 1048576 in the source; the model scales it down.
MAX_INPUT_SIZE == 4
\* Capacity of the kernel's pipe buffer (65536 on Linux), scaled down so that
\* a payload can exceed it and the parent's write can block.
PipeCap == 2

\* ------------------------------------------------------ signal numbers
SIGSEGV == 11
SIGPIPE == 13
SIGTERM == 15
SIGCHLD == 17
SIGSTOP == 19
\* first signal number the C library reserves for itself: raise() refuses it
SIGCANCEL == 32

\* byte values: the zero byte and one other value
Bytes == {0, 65}
\* longest input file: one byte more than the capacity passed to read_file, so
\* that truncation happens
MaxFileLen == MAX_INPUT_SIZE
\* exit codes the analysis program may use
ExitCodes == {0, 1, 2}
\* signals that may terminate the child
TermSignals == {SIGSEGV, SIGTERM, SIGCANCEL}
\* signals the parent may have inherited as ignored (or blocked) from the
\* process that started it; dispositions SIG_IGN and the signal mask survive
\* execve, and the program never changes them
Ignorable == {SIGSEGV, SIGPIPE, SIGCHLD}

\* a capacity that leaves no room for the terminator
max_size_TooLarge == MAX_INPUT_SIZE

\* the capacity main passes to read_file
max_size == MAX_INPUT_SIZE - 1

Min(a, b) == IF a < b THEN a ELSE b

SeqsUpTo(S, n) == UNION {[1..k -> S] : k \in 0..n}

VARIABLES
  \* ---- environment of the invocation
  argc,           \* number of command-line words
  fileOpenable,   \* open(argv[1], O_RDONLY) succeeds
  fileData,       \* the bytes of the file
  ignored,        \* signals whose delivery to the parent has no effect
  \* ---- parent (main and read_file)
  pc,             \* source line the parent is at
  fd_open,        \* read_file's fd is open
  nClose,         \* number of close(fd) calls made by read_file
  bytes_read,     \* read_file's bytes_read, then main's bytes_read
  current_read,   \* result of the last read()
  input_buffer,   \* the written part of input_buffer
  diag,           \* diagnostics printed to stderr
  written,        \* bytes the write() at line 92 has put into the pipe
  status,         \* raw wait status stored by waitpid
  waited,         \* waitpid returned the child's status
  raised,         \* signals passed to raise()
  parent_end,     \* how the parent terminated
  \* ---- pipe
  pipe_made,      \* pipe() succeeded at some point
  pipe,           \* bytes in the pipe buffer
  p_rd, p_wr,     \* parent holds pipe_fd[0] / pipe_fd[1]
  c_rd, c_wr,     \* child holds pipe_fd[0] / pipe_fd[1]
  c_stdin,        \* child's fd 0 is the pipe's read end
  \* ---- child
  cpc,            \* "none", source line of the child branch, "running", "dead"
  child_status,   \* raw termination status of the child
  child_arg,      \* argv[2] as seen by the analysis program
  child_in,       \* bytes the analysis program has read from fd 0
  child_eof       \* the analysis program's read of fd 0 returned 0

envVars    == <<argc, fileOpenable, fileData, ignored>>
loaderVars == <<fd_open, nClose, bytes_read, current_read, input_buffer>>
bridgeVars == <<written, status, waited, raised>>
pipeVars   == <<pipe_made, pipe, p_rd, p_wr>>
cfdVars    == <<c_rd, c_wr, c_stdin>>
childVars  == <<cpc, child_status, child_arg, child_in, child_eof>>
vars == <<envVars, pc, loaderVars, diag, bridgeVars, parent_end, pipeVars,
          cfdVars, childVars>>

\* -------------------------------------------------------- wait status
\* raw status of a child that called exit(code)
W_EXITCODE(code) == (code % 256) * 256
\* raw status of a child terminated by signal sig
W_TERMSIG(sig) == sig
WIFEXITED(st) == (st % 128) = 0
WEXITSTATUS(st) == (st \div 256) % 256
WIFSIGNALED(st) == (st % 128) \in 1..126
WTERMSIG(st) == st % 128
\* raw status of a traced child stopped by signal sig
W_STOPCODE(sig) == sig * 256 + 127

\* The C string starting at buf[1]: the bytes before the first zero byte.
CStr(buf) ==
  LET n == CHOOSE i \in 1..Len(buf) :
             buf[i] = 0 /\ \A j \in 1..(i-1) : buf[j] # 0
  IN SubSeq(buf, 1, n - 1)

\* the payload: the first bytes_read bytes of input_buffer
Payload == SubSeq(input_buffer, 1, bytes_read)

\* open read ends / write ends of the pipe, over both processes
Readers == Cardinality({x \in {<<"p", p_rd>>, <<"c", c_rd>>, <<"s", c_stdin>>} : x[2]})
Writers == Cardinality({x \in {<<"p", p_wr>>, <<"c", c_wr>>} : x[2]})

\* raise(sig) terminates the caller unless the signal is ignored (or blocked)
\* or the C library rejects the number
RaiseKills(sig) == sig \notin ignored /\ sig < SIGCANCEL

Init ==
  /\ argc \in {1, 2}
  /\ fileOpenable \in BOOLEAN
  /\ fileData \in SeqsUpTo(Bytes, MaxFileLen)
  /\ ignored \in SUBSET Ignorable
  /\ pc = "L44"
  /\ fd_open = FALSE /\ nClose = 0
  /\ bytes_read = 0 /\ current_read = 0
  /\ input_buffer = <<>>
  /\ diag = {}
  /\ written = 0 /\ status = 0 /\ waited = FALSE /\ raised = {}
  /\ parent_end = [kind |-> "running", val |-> 0]
  /\ pipe_made = FALSE /\ pipe = <<>>
  /\ p_rd = FALSE /\ p_wr = FALSE
  /\ c_rd = FALSE /\ c_wr = FALSE /\ c_stdin = FALSE
  /\ cpc = "none" /\ child_status = 0
  /\ child_arg = <<>> /\ child_in = <<>> /\ child_eof = FALSE

\* ------------------------------------------------------------- parent
\* return code from main: the process exits and its descriptors are closed
Return(code) ==
  /\ parent_end' = [kind |-> "exit", val |-> code]
  /\ pc' = "end"
  /\ p_rd' = FALSE /\ p_wr' = FALSE

\* the parent is terminated by signal sig
Killed(sig) ==
  /\ parent_end' = [kind |-> "signal", val |-> sig]
  /\ pc' = "end"
  /\ p_rd' = FALSE /\ p_wr' = FALSE

\* lines 44-47
CheckArgs ==
  /\ pc = "L44"
  /\ IF argc < 2
       THEN /\ diag' = diag \cup {"usage"}
            /\ Return(1)
       ELSE /\ pc' = "L24"
            /\ UNCHANGED <<diag, parent_end, p_rd, p_wr>>
  /\ UNCHANGED <<envVars, loaderVars, bridgeVars, pipe_made, pipe, cfdVars, childVars>>

\* read_file, lines 24-29
OpenFile ==
  /\ pc = "L24"
  /\ IF ~fileOpenable
       THEN /\ bytes_read' = 0
            /\ pc' = "L57"
            /\ UNCHANGED fd_open
       ELSE /\ fd_open' = TRUE
            /\ bytes_read' = 0
            /\ pc' = "L31"
  /\ UNCHANGED <<envVars, nClose, current_read, input_buffer, diag, bridgeVars,
                 parent_end, pipeVars, cfdVars, childVars>>

\* ReadChunk with the request size max_size instead of max_size - bytes_read
ReadChunk_FullRequest ==
  /\ pc = "L31"
  /\ \E k \in 1..Min(max_size, Len(fileData) - bytes_read) :
       /\ current_read' = k
       /\ input_buffer' = input_buffer \o SubSeq(fileData, bytes_read + 1, bytes_read + k)
       /\ bytes_read' = bytes_read + k
       /\ IF bytes_read + k >= max_size
            THEN /\ diag' = diag \cup {"truncated"}
                 /\ pc' = "L39"
            ELSE /\ pc' = "L31"
                 /\ UNCHANGED diag
  /\ UNCHANGED <<envVars, fd_open, nClose, bridgeVars, parent_end, pipeVars,
                 cfdVars, childVars>>

\* read_file, lines 31-36: read() returns k > 0 bytes
ReadChunk ==
  /\ pc = "L31"
  /\ \E k \in 1..Min(max_size - bytes_read, Len(fileData) - bytes_read) :
       /\ current_read' = k
       /\ input_buffer' = input_buffer \o SubSeq(fileData, bytes_read + 1, bytes_read + k)
       /\ bytes_read' = bytes_read + k
       /\ IF bytes_read + k >= max_size
            THEN /\ diag' = diag \cup {"truncated"}
                 /\ pc' = "L39"
            ELSE /\ pc' = "L31"
                 /\ UNCHANGED diag
  /\ UNCHANGED <<envVars, fd_open, nClose, bridgeVars, parent_end, pipeVars,
                 cfdVars, childVars>>

\* read_file, line 31: read() returns 0 at end of file (or when asked for
\* no bytes)
ReadEOF ==
  /\ pc = "L31"
  /\ (bytes_read = Len(fileData) \/ max_size - bytes_read = 0)
  /\ current_read' = 0
  /\ pc' = "L39"
  /\ UNCHANGED <<envVars, fd_open, nClose, bytes_read, input_buffer, diag,
                 bridgeVars, parent_end, pipeVars, cfdVars, childVars>>

\* ReadError that returns from read_file without closing fd
ReadError_NoClose ==
  /\ pc = "L31"
  /\ current_read' = -1
  /\ pc' = "L57"
  /\ UNCHANGED <<envVars, fd_open, nClose, bytes_read, input_buffer, diag,
                 bridgeVars, parent_end, pipeVars, cfdVars, childVars>>

\* read_file, line 31: read() fails and returns -1
ReadError ==
  /\ pc = "L31"
  /\ current_read' = -1
  /\ pc' = "L39"
  /\ UNCHANGED <<envVars, fd_open, nClose, bytes_read, input_buffer, diag,
                 bridgeVars, parent_end, pipeVars, cfdVars, childVars>>

\* read_file, lines 39-40
CloseFile ==
  /\ pc = "L39"
  /\ fd_open' = FALSE
  /\ nClose' = nClose + 1
  /\ pc' = "L57"
  /\ UNCHANGED <<envVars, bytes_read, current_read, input_buffer, diag,
                 bridgeVars, parent_end, pipeVars, cfdVars, childVars>>

\* CheckEmpty without the bytes_read == 0 test
CheckEmpty_NoCheck ==
  /\ pc = "L57"
  /\ input_buffer' = Append(input_buffer, 0)
  /\ pc' = "L66"
  /\ UNCHANGED <<diag, parent_end, p_rd, p_wr>>
  /\ UNCHANGED <<envVars, fd_open, nClose, bytes_read, current_read, bridgeVars,
                 pipe_made, pipe, cfdVars, childVars>>

\* lines 56-63
CheckEmpty ==
  /\ pc = "L57"
  /\ IF bytes_read = 0
       THEN /\ diag' = diag \cup {"noinput"}
            /\ Return(1)
            /\ UNCHANGED input_buffer
       ELSE /\ input_buffer' = Append(input_buffer, 0)
            /\ pc' = "L66"
            /\ UNCHANGED <<diag, parent_end, p_rd, p_wr>>
  /\ UNCHANGED <<envVars, fd_open, nClose, bytes_read, current_read, bridgeVars,
                 pipe_made, pipe, cfdVars, childVars>>

\* lines 66-69
MakePipe ==
  /\ pc = "L66"
  /\ \/ /\ pipe_made' = TRUE
        /\ p_rd' = TRUE /\ p_wr' = TRUE
        /\ pc' = "L72"
        /\ UNCHANGED <<diag, parent_end>>
     \/ /\ diag' = diag \cup {"pipe"}
        /\ Return(1)
        /\ UNCHANGED pipe_made
  /\ UNCHANGED <<envVars, loaderVars, bridgeVars, pipe, cfdVars, childVars>>

\* Fork whose failure branch prints the diagnostic but does not return
Fork_NoReturn ==
  /\ pc = "L72"
  /\ \/ /\ cpc' = "L80"
        /\ c_rd' = TRUE /\ c_wr' = TRUE
        /\ pc' = "L91"
        /\ UNCHANGED <<diag, parent_end, p_rd, p_wr>>
     \/ /\ diag' = diag \cup {"fork"}
        /\ pc' = "L91"
        /\ UNCHANGED <<cpc, c_rd, c_wr, parent_end, p_rd, p_wr>>
  /\ UNCHANGED <<envVars, loaderVars, bridgeVars, pipe_made, pipe, c_stdin,
                 child_status, child_arg, child_in, child_eof>>

\* lines 72-76
Fork ==
  /\ pc = "L72"
  /\ \/ /\ cpc' = "L80"
        /\ c_rd' = TRUE /\ c_wr' = TRUE
        /\ pc' = "L91"
        /\ UNCHANGED <<diag, parent_end, p_rd, p_wr>>
     \/ /\ diag' = diag \cup {"fork"}
        /\ Return(1)
        /\ UNCHANGED <<cpc, c_rd, c_wr>>
  /\ UNCHANGED <<envVars, loaderVars, bridgeVars, pipe_made, pipe, c_stdin,
                 child_status, child_arg, child_in, child_eof>>

\* ParentCloseRead that leaves pipe_fd[0] open in the parent
ParentCloseRead_Skip ==
  /\ pc = "L91"
  /\ pc' = "L92"
  /\ UNCHANGED <<envVars, loaderVars, diag, bridgeVars, parent_end, pipe_made,
                 pipe, p_rd, p_wr, cfdVars, childVars>>

\* line 91
ParentCloseRead ==
  /\ pc = "L91"
  /\ p_rd' = FALSE
  /\ pc' = "L92"
  /\ UNCHANGED <<envVars, loaderVars, diag, bridgeVars, parent_end, pipe_made,
                 pipe, p_wr, cfdVars, childVars>>

\* ParentWrite that does not compare the count written with bytes_read
ParentWrite_IgnoreShort ==
  /\ pc = "L92"
  /\ Readers > 0
  /\ \E k \in 1..Min(PipeCap - Len(pipe), bytes_read - written) :
       /\ pipe' = pipe \o SubSeq(input_buffer, written + 1, written + k)
       /\ written' = written + k
       /\ pc' = "L97"
  /\ UNCHANGED <<envVars, loaderVars, diag, status, waited, raised, parent_end,
                 pipe_made, p_rd, p_wr, cfdVars, childVars>>

\* line 92: the blocking write() moves bytes into the pipe while there is
\* room and a reader; it returns bytes_read once everything is in
ParentWrite ==
  /\ pc = "L92"
  /\ Readers > 0
  /\ \E k \in 1..Min(PipeCap - Len(pipe), bytes_read - written) :
       /\ pipe' = pipe \o SubSeq(input_buffer, written + 1, written + k)
       /\ written' = written + k
       /\ pc' = IF written + k = bytes_read THEN "L97" ELSE "L92"
  /\ UNCHANGED <<envVars, loaderVars, diag, status, waited, raised, parent_end,
                 pipe_made, p_rd, p_wr, cfdVars, childVars>>

\* ParentWriteBroken whose error branch closes the write end but goes on to
\* waitpid instead of returning
ParentWriteBroken_GoesOn ==
  /\ pc = "L92"
  /\ Readers = 0
  /\ IF SIGPIPE \notin ignored
       THEN /\ Killed(SIGPIPE)
            /\ UNCHANGED diag
       ELSE /\ diag' = diag \cup {"write"}
            /\ p_wr' = FALSE
            /\ pc' = "L98"
            /\ UNCHANGED <<parent_end, p_rd>>
  /\ UNCHANGED <<envVars, loaderVars, bridgeVars, pipe_made, pipe, cfdVars, childVars>>

\* lines 92-96: no read end is open any more.  The kernel sends SIGPIPE; if
\* that has no effect, write() returns the short count or -1
ParentWriteBroken ==
  /\ pc = "L92"
  /\ Readers = 0
  /\ IF SIGPIPE \notin ignored
       THEN /\ Killed(SIGPIPE)
            /\ UNCHANGED diag
       ELSE /\ diag' = diag \cup {"write"}
            /\ Return(1)
  /\ UNCHANGED <<envVars, loaderVars, bridgeVars, pipe_made, pipe, cfdVars, childVars>>

\* line 97
ParentCloseWrite ==
  /\ pc = "L97"
  /\ p_wr' = FALSE
  /\ pc' = "L98"
  /\ UNCHANGED <<envVars, loaderVars, diag, bridgeVars, parent_end, pipe_made,
                 pipe, p_rd, cfdVars, childVars>>

\* lines 98-101: waitpid blocks until the child has changed state; with
\* SIGCHLD ignored a terminated child is reaped by the kernel and waitpid
\* fails (ECHILD)
Wait ==
  /\ pc = "L98"
  /\ \/ cpc = "dead"
     \/ cpc = "stopped" /\ SIGCHLD \notin ignored
  /\ IF SIGCHLD \in ignored
       THEN /\ diag' = diag \cup {"wait"}
            /\ Return(1)
            /\ UNCHANGED <<status, waited>>
       ELSE /\ status' = child_status
            /\ waited' = TRUE
            /\ pc' = "L102"
            /\ UNCHANGED <<diag, parent_end, p_rd, p_wr>>
  /\ UNCHANGED <<envVars, loaderVars, written, raised, pipe_made, pipe, cfdVars,
                 childVars>>

\* Classify without the final else branch: a status that is neither an exit
\* nor a signal termination falls through to line 118
Classify_NoElse ==
  /\ pc = "L102"
  /\ pc' = IF WIFEXITED(status)
             THEN (IF WEXITSTATUS(status) # 0 THEN "L105" ELSE "L108")
             ELSE IF WIFSIGNALED(status) THEN "L111" ELSE "L118"
  /\ UNCHANGED <<envVars, loaderVars, diag, bridgeVars, parent_end, pipeVars,
                 cfdVars, childVars>>

\* lines 102-104, 109-110, 113: classify the status
Classify ==
  /\ pc = "L102"
  /\ pc' = IF WIFEXITED(status)
             THEN (IF WEXITSTATUS(status) # 0 THEN "L105" ELSE "L108")
             ELSE IF WIFSIGNALED(status) THEN "L111" ELSE "L114"
  /\ UNCHANGED <<envVars, loaderVars, diag, bridgeVars, parent_end, pipeVars,
                 cfdVars, childVars>>

\* lines 105-106
RaiseSegv ==
  /\ pc = "L105"
  /\ diag' = diag \cup {"vulnerability"}
  /\ raised' = raised \cup {SIGSEGV}
  /\ IF RaiseKills(SIGSEGV)
       THEN Killed(SIGSEGV)
       ELSE /\ pc' = "L108"
            /\ UNCHANGED <<parent_end, p_rd, p_wr>>
  /\ UNCHANGED <<envVars, loaderVars, written, status, waited, pipe_made, pipe,
                 cfdVars, childVars>>

\* line 108
ReturnOk ==
  /\ pc = "L108"
  /\ Return(0)
  /\ UNCHANGED <<envVars, loaderVars, diag, bridgeVars, pipe_made, pipe, cfdVars,
                 childVars>>

\* lines 110-112
RaiseSignal ==
  /\ pc = "L111"
  /\ diag' = diag \cup {"signal"}
  /\ raised' = raised \cup {WTERMSIG(status)}
  /\ IF RaiseKills(WTERMSIG(status))
       THEN Killed(WTERMSIG(status))
       ELSE /\ pc' = "L118"
            /\ UNCHANGED <<parent_end, p_rd, p_wr>>
  /\ UNCHANGED <<envVars, loaderVars, written, status, waited, pipe_made, pipe,
                 cfdVars, childVars>>

\* lines 114-115
ReturnAbnormal ==
  /\ pc = "L114"
  /\ diag' = diag \cup {"abnormal"}
  /\ Return(1)
  /\ UNCHANGED <<envVars, loaderVars, bridgeVars, pipe_made, pipe, cfdVars, childVars>>

\* line 118
ReturnFinal ==
  /\ pc = "L118"
  /\ Return(0)
  /\ UNCHANGED <<envVars, loaderVars, diag, bridgeVars, pipe_made, pipe, cfdVars,
                 childVars>>

\* -------------------------------------------------------------- child
\* the child terminates with raw status st; its descriptors are closed
ChildDies(st) ==
  /\ cpc' = "dead"
  /\ child_status' = st
  /\ c_rd' = FALSE /\ c_wr' = FALSE /\ c_stdin' = FALSE

\* ChildCloseWrite that leaves pipe_fd[1] open in the child
ChildCloseWrite_Skip ==
  /\ cpc = "L80"
  /\ cpc' = "L81"
  /\ UNCHANGED <<envVars, pc, loaderVars, diag, bridgeVars, parent_end, pipeVars,
                 c_rd, c_wr, c_stdin, child_status, child_arg, child_in, child_eof>>

\* line 80
ChildCloseWrite ==
  /\ cpc = "L80"
  /\ c_wr' = FALSE
  /\ cpc' = "L81"
  /\ UNCHANGED <<envVars, pc, loaderVars, diag, bridgeVars, parent_end, pipeVars,
                 c_rd, c_stdin, child_status, child_arg, child_in, child_eof>>

\* lines 81-84
ChildDup2 ==
  /\ cpc = "L81"
  /\ \/ /\ c_stdin' = TRUE
        /\ cpc' = "L85"
        /\ UNCHANGED <<diag, c_rd, c_wr, child_status>>
     \/ /\ diag' = diag \cup {"dup2"}
        /\ ChildDies(W_EXITCODE(1))
  /\ UNCHANGED <<envVars, pc, loaderVars, bridgeVars, parent_end, pipeVars,
                 child_arg, child_in, child_eof>>

\* ChildCloseRead that leaves pipe_fd[0] open
ChildCloseRead_Skip ==
  /\ cpc = "L85"
  /\ cpc' = "L86"
  /\ UNCHANGED <<envVars, pc, loaderVars, diag, bridgeVars, parent_end, pipeVars,
                 c_rd, c_wr, c_stdin, child_status, child_arg, child_in, child_eof>>

\* line 85
ChildCloseRead ==
  /\ cpc = "L85"
  /\ c_rd' = FALSE
  /\ cpc' = "L86"
  /\ UNCHANGED <<envVars, pc, loaderVars, diag, bridgeVars, parent_end, pipeVars,
                 c_wr, c_stdin, child_status, child_arg, child_in, child_eof>>

\* lines 86-88: execlp passes input_buffer as a C string
ChildExec ==
  /\ cpc = "L86"
  /\ \/ /\ child_arg' = CStr(input_buffer)
        /\ cpc' = "running"
        /\ UNCHANGED <<diag, c_rd, c_wr, c_stdin, child_status>>
     \/ /\ diag' = diag \cup {"exec"}
        /\ ChildDies(W_EXITCODE(1))
        /\ UNCHANGED child_arg
  /\ UNCHANGED <<envVars, pc, loaderVars, bridgeVars, parent_end, pipeVars,
                 child_in, child_eof>>

\* the analysis program reads k bytes from its standard input
ChildRead ==
  /\ cpc = "running"
  /\ c_stdin
  /\ \E k \in 1..Len(pipe) :
       /\ child_in' = child_in \o SubSeq(pipe, 1, k)
       /\ pipe' = SubSeq(pipe, k + 1, Len(pipe))
  /\ UNCHANGED <<envVars, pc, loaderVars, diag, bridgeVars, parent_end, pipe_made,
                 p_rd, p_wr, cfdVars, cpc, child_status, child_arg, child_eof>>

\* the analysis program's read returns 0: pipe empty and no write end open
ChildReadEOF ==
  /\ cpc = "running"
  /\ c_stdin
  /\ ~child_eof
  /\ pipe = <<>>
  /\ Writers = 0
  /\ child_eof' = TRUE
  /\ UNCHANGED <<envVars, pc, loaderVars, diag, bridgeVars, parent_end, pipeVars,
                 cfdVars, cpc, child_status, child_arg, child_in>>

\* the analysis program closes its standard input
ChildCloseStdin ==
  /\ cpc = "running"
  /\ c_stdin
  /\ c_stdin' = FALSE
  /\ UNCHANGED <<envVars, pc, loaderVars, diag, bridgeVars, parent_end, pipeVars,
                 c_rd, c_wr, childVars>>

\* the analysis program exits
ChildExit ==
  /\ cpc = "running"
  /\ \E code \in ExitCodes : ChildDies(W_EXITCODE(code))
  /\ UNCHANGED <<envVars, pc, loaderVars, diag, bridgeVars, parent_end, pipeVars,
                 child_arg, child_in, child_eof>>

\* the analysis program, having asked to be traced by its parent, stops on a
\* signal: waitpid reports a status that is neither an exit nor a termination
ChildTraceStop ==
  /\ cpc = "running"
  /\ cpc' = "stopped"
  /\ child_status' = W_STOPCODE(SIGSTOP)
  /\ UNCHANGED <<envVars, pc, loaderVars, diag, bridgeVars, parent_end, pipeVars,
                 cfdVars, child_arg, child_in, child_eof>>

\* the child is terminated by a signal
ChildKilled ==
  /\ cpc \notin {"none", "dead"}
  /\ \E sig \in TermSignals : ChildDies(W_TERMSIG(sig))
  /\ UNCHANGED <<envVars, pc, loaderVars, diag, bridgeVars, parent_end, pipeVars,
                 child_arg, child_in, child_eof>>

Parent ==
  \/ CheckArgs \/ OpenFile \/ ReadChunk \/ ReadEOF \/ ReadError \/ CloseFile
  \/ CheckEmpty \/ MakePipe \/ Fork \/ ParentCloseRead \/ ParentWrite
  \/ ParentWriteBroken \/ ParentCloseWrite \/ Wait \/ Classify \/ RaiseSegv
  \/ ReturnOk \/ RaiseSignal \/ ReturnAbnormal \/ ReturnFinal

Child ==
  \/ ChildCloseWrite \/ ChildDup2 \/ ChildCloseRead \/ ChildExec \/ ChildRead
  \/ ChildReadEOF \/ ChildCloseStdin \/ ChildExit \/ ChildTraceStop \/ ChildKilled

Next == Parent \/ Child

Spec == Init /\ [][Next]_vars

\* Steps the child takes by itself as long as it goes on: the lines of the
\* child branch, and the reads of an analysis program that keeps reading.
ChildProgress ==
  \/ ChildCloseWrite \/ ChildDup2 \/ ChildCloseRead \/ ChildExec
  \/ ChildRead \/ ChildReadEOF

\* Both processes are scheduled: a parent step that stays possible is taken
\* (every call of main blocks only until it can complete), and so is a step of
\* the child.
FairSpec == Spec /\ WF_vars(Parent) /\ WF_vars(ChildProgress)

\* ------------------------------------------------------------- claims
Ended == parent_end.kind # "running"
ExitedWith(code) == parent_end = [kind |-> "exit", val |-> code]
KilledBy(sig) == parent_end = [kind |-> "signal", val |-> sig]
\* the status waitpid stored says the child exited with a nonzero code
SawNonzeroExit == waited /\ WIFEXITED(status) /\ WEXITSTATUS(status) # 0
\* the status waitpid stored says the child was terminated by a signal
SawSignal == waited /\ WIFSIGNALED(status)
\* the child process has terminated by exit(0)
ChildExitedZero ==
  cpc = "dead" /\ WIFEXITED(child_status) /\ WEXITSTATUS(child_status) = 0

\* C1: the parent is terminated by a signal if and only if the wait step saw
\* the child exit with a nonzero code or be terminated by a signal; no other
\* step (such as the write into the pipe) kills the parent by a signal.
C1_CrashIffChildIndicated ==
  Ended => ((parent_end.kind = "signal") <=> (SawNonzeroExit \/ SawSignal))

\* C2: if the child exits with code 0, the parent's exit code is 0, for every
\* payload size and every interleaving of the parent's write with the child's
\* reading (or not reading) of its standard input and its exit.
C2_ChildZeroThenExitZero ==
  (ChildExitedZero /\ Ended) => ExitedWith(0)

\* C3: if the child exits with a nonzero code, the parent terminates by
\* SIGSEGV delivered to itself and never by a normal exit (code 0 or 1).
C3_NonzeroExitThenSegv ==
  (SawNonzeroExit /\ Ended) => KilledBy(SIGSEGV)

\* C4: if the child is terminated by signal s, the parent terminates by the
\* same signal s and never by a normal exit; control never falls through
\* the re-delivery to the final return 0.
C4_SignalRedelivered ==
  (SawSignal /\ Ended) => KilledBy(WTERMSIG(status))

\* C5: the parent exits with code 0 only if a child was spawned, the whole
\* payload was transferred and the wait step saw the child exit with code 0.
C5_ExitZeroOnlyIfClean ==
  ExitedWith(0) =>
    /\ cpc # "none"
    /\ written = bytes_read
    /\ waited /\ WIFEXITED(status) /\ WEXITSTATUS(status) = 0

\* C6: for every payload of size 0 < S < max_capacity and every content
\* (zero bytes included) the analysis program gets the same S bytes as its
\* extra argument and, having read its standard input to the end, on its
\* standard input.
C6_BothPathsSameData ==
  (cpc = "running" /\ bytes_read = Len(fileData) /\ bytes_read < max_size) =>
    /\ child_arg = Payload
    /\ child_eof => child_in = Payload

\* C7: with the input-file argument missing, the file not openable, or zero
\* bytes read from it, the parent exits with code 1, and at no point of the
\* run is a pipe created or a child spawned.
C7_NoInputNoSpawn ==
  (argc < 2 \/ ~fileOpenable \/ (pc \notin {"L44", "L24", "L31", "L39"} /\ bytes_read = 0)) =>
    /\ ~pipe_made
    /\ cpc = "none"
    /\ Ended => ExitedWith(1)

\* the parent has ended with exit code 1 after opening the file and reading
\* zero bytes from it
C7_Witness ==
  ExitedWith(1) /\ nClose = 1 /\ bytes_read = 0 /\ "noinput" \in diag

\* the loader has returned from a file longer than max_size whose reads all
\* succeeded
TruncatedLoad ==
  /\ argc >= 2 /\ fileOpenable
  /\ Len(fileData) > max_size
  /\ current_read # -1

\* C8: for a file longer than max_capacity, however the reads are split into
\* chunks, the loader returns exactly the first max_capacity bytes, prints
\* the truncation warning and raises no error: the run goes on to the spawn
\* step.
C8_TruncatedPayload ==
  /\ [](pc \notin {"L44", "L24", "L31", "L39"} /\ TruncatedLoad =>
          /\ bytes_read = max_size
          /\ Payload = SubSeq(fileData, 1, max_size)
          /\ "truncated" \in diag
          /\ "noinput" \notin diag)
  /\ [][pc = "L57" /\ TruncatedLoad => pc' = "L66"]_vars

\* the run has reached the spawn step with a truncated payload that took
\* more than one read
C8_Witness ==
  pc = "L66" /\ TruncatedLoad /\ current_read < max_size /\ "truncated" \in diag

\* C9: the parent starts waiting only after the whole payload is in the
\* pipe, and after closing its write end it writes nothing into the pipe.
C9_WriteBeforeWait ==
  /\ [](pc \in {"L98", "L102", "L105", "L108", "L111", "L114", "L118"} \/ waited
          => written = bytes_read)
  /\ [][written' # written => p_wr /\ pc = "L92"]_vars
  /\ [][~p_wr /\ pc \notin {"L44", "L24", "L31", "L39", "L57", "L66"}
          => written' = written /\ ~p_wr']_vars

\* the parent is waiting after a write that was larger than the pipe buffer
C9_Witness ==
  pc = "L98" /\ ~p_wr /\ written = bytes_read /\ bytes_read > PipeCap

ToolingErrors == {"pipe", "fork", "write", "wait"}

\* C10: a pipe, fork, write or wait failure detected by the parent ends the
\* run at once with exit code 1 and no signal raised; after a pipe or fork
\* failure there is no child and no wait.
C10_ToolingErrorExitsOne ==
  /\ diag \cap ToolingErrors # {} => ExitedWith(1) /\ raised = {}
  /\ diag \cap {"pipe", "fork"} # {} => cpc = "none" /\ ~waited /\ status = 0

\* the parent has exited with code 1 after a failed write, the child existing
C10_Witness ==
  "write" \in diag /\ ExitedWith(1) /\ cpc # "none" /\ written < bytes_read

\* ------------------------------------------------- claims, second part
\* the forked child printed that it could not rebind its standard input or
\* could not load the analysis program
SpawnFailed == diag \cap {"dup2", "exec"} # {}

\* C11: when the analysis program never starts (dup2 or execlp fails in the
\* forked child), the parent ends with exit code 1 and not by a fault signal
\* it delivers to itself.
C11_SpawnFailureExitsOne ==
  (SpawnFailed /\ Ended) => ExitedWith(1) /\ raised = {}

\* C12: when write() returns a count different from bytes_read, the parent
\* closes the write end and exits with code 1 without ever waiting for the
\* child, which may still be running.
C12_TransferFailureNoWait ==
  "write" \in diag =>
    /\ ExitedWith(1)
    /\ ~p_wr
    /\ ~waited /\ "wait" \notin diag /\ status = 0
    /\ raised = {}

\* the parent has exited after a short write while the analysis program is
\* still running
C12_Witness ==
  /\ "write" \in diag /\ ExitedWith(1)
  /\ cpc = "running"
  /\ written > 0 /\ written < bytes_read

\* the stored status is neither a normal exit nor a signal termination
Abnormal == waited /\ ~WIFEXITED(status) /\ ~WIFSIGNALED(status)

\* C13: the classification of the wait status is total with precedence
\* exited, signaled, abnormal; for an abnormal status the parent exits with
\* code 1 and raises no signal.
C13_ClassificationTotal ==
  /\ [](/\ pc = "L105" => WIFEXITED(status) /\ WEXITSTATUS(status) # 0
        /\ pc = "L111" => ~WIFEXITED(status) /\ WIFSIGNALED(status)
        /\ pc = "L114" => ~WIFEXITED(status) /\ ~WIFSIGNALED(status)
        /\ pc = "L118" => ~WIFEXITED(status) /\ WIFSIGNALED(status)
        /\ (Abnormal /\ Ended) =>
              ExitedWith(1) /\ raised = {} /\ "abnormal" \in diag)
  /\ [][pc = "L102" /\ pc' # pc =>
          /\ WIFEXITED(status) => pc' \in {"L105", "L108"}
          /\ ~WIFEXITED(status) /\ WIFSIGNALED(status) => pc' = "L111"
          /\ ~WIFEXITED(status) /\ ~WIFSIGNALED(status) => pc' = "L114"]_vars

\* the parent has exited with code 1 after waitpid stored a stop status
C13_Witness ==
  Abnormal /\ status = W_STOPCODE(SIGSTOP) /\ ExitedWith(1) /\ "abnormal" \in diag

\* C14: a run in which a child was created and the parent terminates on a
\* path other than the transfer-failure path has the parent's waitpid call
\* completed before the parent terminates.
C14_OnlyTransferFailureSkipsWait ==
  (cpc # "none" /\ Ended /\ "write" \notin diag) =>
    (waited \/ "wait" \in diag)

\* C15: once the parent writes it holds only the write end; once the
\* analysis program is loaded the child holds the read end only as its
\* standard input and no copy of the write end; with both in place the pipe
\* has exactly one writer and one reader.
C15_EndpointDiscipline ==
  /\ [](/\ pc = "L92" => ~p_rd /\ p_wr
        /\ cpc \in {"running", "stopped"} => ~c_rd /\ ~c_wr
        /\ (pc = "L92" /\ cpc = "running" /\ c_stdin) =>
              Readers = 1 /\ Writers = 1)
  /\ [][cpc # "running" /\ cpc' = "running" => c_stdin' /\ ~c_rd' /\ ~c_wr']_vars

\* the parent is in the middle of its write while the loaded analysis
\* program holds the read end as its standard input
C15_Witness ==
  /\ pc = "L92" /\ written > 0
  /\ cpc = "running" /\ c_stdin /\ child_in # <<>>

\* read_file has returned to main (or was never called and main has ended)
LoaderDone == pc \notin {"L44", "L24", "L31", "L39"}

\* C17: if a read of the input file fails, also after some bytes were
\* accumulated, the parent exits with code 1 and forwards no partial payload
\* to a child: no pipe is created and no child is spawned.
C17_ReadFailureIsFatal ==
  (LoaderDone /\ current_read = -1) =>
    /\ ~pipe_made
    /\ cpc = "none"
    /\ Ended => ExitedWith(1)

\* C18: on every path on which read_file opened the file (end of file,
\* truncation, read failure, zero bytes read) it has closed the descriptor
\* exactly once when it returns, and the descriptor is never open afterwards.
C18_FileClosedOnce ==
  /\ nClose <= 1
  /\ fd_open => nClose = 0 /\ pc \in {"L31", "L39"}
  /\ LoaderDone =>
       /\ ~fd_open
       /\ nClose = (IF argc >= 2 /\ fileOpenable THEN 1 ELSE 0)

\* read_file has returned after a read failure that followed a successful
\* read, with the descriptor closed once
C18_Witness ==
  pc = "L57" /\ current_read = -1 /\ bytes_read > 0 /\ ~fd_open /\ nClose = 1

\* C19: for every file size and every sequence of read chunk sizes the byte
\* count never exceeds MAX_INPUT_SIZE - 1, no read delivers more than the
\* capacity that remains, and the terminator written at index bytes_read
\* lies inside the buffer of MAX_INPUT_SIZE bytes.
C19_BufferBounds ==
  /\ [](/\ bytes_read <= MAX_INPUT_SIZE - 1
        /\ Len(input_buffer) <= MAX_INPUT_SIZE
        /\ pc \in {"L31", "L39", "L57"} => Len(input_buffer) = bytes_read
        /\ (LoaderDone /\ pc # "L57" /\ bytes_read > 0) =>
              /\ Len(input_buffer) = bytes_read + 1
              /\ input_buffer[bytes_read + 1] = 0
              /\ bytes_read + 1 <= MAX_INPUT_SIZE)
  /\ [][(pc = "L31" /\ current_read' > 0 /\ bytes_read' # bytes_read) =>
          /\ current_read' <= (MAX_INPUT_SIZE - 1) - bytes_read
          /\ bytes_read' = bytes_read + current_read']_vars

\* the terminator has been written into the last byte of the buffer after a
\* load that took more than one read
C19_Witness ==
  /\ pc = "L66" /\ bytes_read = MAX_INPUT_SIZE - 1
  /\ Len(input_buffer) = MAX_INPUT_SIZE /\ input_buffer[MAX_INPUT_SIZE] = 0
  /\ current_read < bytes_read

\* write() at line 92 returned bytes_read and line 97 closed pipe_fd[1]
TransferDone == bytes_read > 0 /\ written = bytes_read /\ pc \notin {"L92", "L97"}

\* the child does not go on reading its standard input
ChildNotReading ==
  cpc \in {"dead", "stopped"} \/ (cpc = "running" /\ ~c_stdin)

\* C16 as stated: once the parent has closed the write end after a successful
\* transfer, no process holds an open write end of the pipe.
C16_NoWriterAfterClose ==
  TransferDone => Writers = 0

\* C16, amended: once the parent has closed the write end after a successful
\* transfer, the parent holds no write end, and no process holds one as soon
\* as the child has executed line 80; an analysis program that reads
\* end-of-input has read exactly the payload, and a child that keeps reading
\* eventually reads the payload followed by end-of-input.
C16_ChildReadsPayloadThenEOF ==
  /\ [](TransferDone =>
          /\ ~p_wr
          /\ cpc \notin {"none", "L80"} => Writers = 0
          /\ child_eof => child_in = Payload)
  /\ (TransferDone ~> ((child_eof /\ child_in = Payload) \/ ChildNotReading))

\* the analysis program has read a payload larger than the pipe buffer and
\* then end-of-input
C16_Witness ==
  /\ TransferDone /\ bytes_read > PipeCap
  /\ cpc = "running" /\ child_eof /\ child_in = Payload

====
